---- MODULE Spec2Model ----
(***************************************************************************)
(* Model of go-llm-proxy (src/main.go).  The file holds two revisions of   *)
(* the same program: revision 1 (lines 1-191: debug logging, environment   *)
(* checks, customised proxy hooks, streaming branch) and revision 2        *)
(* (lines 193-321: forced stream flag, response recorded then replayed).   *)
(* The variable `revision` selects which of the two programs is running.   *)
(*                                                                         *)
(* Strings that the code inspects by prefix or concatenates (URL paths,    *)
(* target URLs) are sequences of tokens, so that strings.HasPrefix and the *)
(* reverse proxy's path join are computed and not assumed.  JSON objects   *)
(* are functions from the keys that are present to their values; the Go    *)
(* struct RequestBody is a record with all five fields.                    *)
(***************************************************************************)
EXTENDS Integers, Sequences, FiniteSets, TLC

\* ------------------------------------------------------------------ bounds
\* Number of requests in flight at once in the concurrent specification.
NumClients == 2

Clients == 1..NumClients

\* ------------------------------------------------------------- string tools
\* strings.HasPrefix(s, prefix) on token sequences.
HasPrefix(s, prefix) ==
    /\ Len(s) >= Len(prefix)
    /\ SubSeq(s, 1, Len(prefix)) = prefix

\* strings.HasSuffix(s, "/") as used by the reverse proxy's path join.
HasSuffixSlash(s) == Len(s) > 0 /\ s[Len(s)] = "/"

HasPrefixSlash(s) == Len(s) > 0 /\ s[1] = "/"

AnthropicPrefix == <<"/", "anthropic", "/", "v1", "/", "messages">>
ChatPrefix == <<"/", "v1", "/", "chat", "/", "completions">>

\* Paths the server mux ("/v1/", "/anthropic/") hands to proxyHandler.
Paths ==
    { AnthropicPrefix,
      ChatPrefix,
      ChatPrefix \o <<"/">>,
      AnthropicPrefix \o <<"/", "batches">>,
      <<"/", "v1", "/", "models">>,
      <<"/", "anthropic", "/", "v2">> }

\* --------------------------------------------------------------- JSON body
\* type RequestBody struct: the zero value.
ZeroRequestBody ==
    [Messages |-> "nil", Model |-> "", Stream |-> FALSE,
     MaxTokens |-> 0, System |-> ""]

\* json.Unmarshal(body, &reqBody) for a body that is a JSON object: known
\* keys fill the struct, absent keys leave the zero value, unknown keys are
\* dropped, a JSON null leaves the field untouched.
Unmarshal(obj) ==
    [Messages  |-> IF "messages" \in DOMAIN obj /\ obj["messages"] # "null"
                   THEN obj["messages"] ELSE "nil",
     Model     |-> IF "model" \in DOMAIN obj THEN obj["model"] ELSE "",
     Stream    |-> IF "stream" \in DOMAIN obj THEN obj["stream"] ELSE FALSE,
     MaxTokens |-> IF "max_tokens" \in DOMAIN obj THEN obj["max_tokens"] ELSE 0,
     System    |-> IF "system" \in DOMAIN obj THEN obj["system"] ELSE ""]

\* Keys json.Marshal writes for a RequestBody: messages always, the four
\* omitempty fields only when they are not the zero value.
MarshalKeys(s) ==
    {"messages"}
      \cup (IF s.Model # "" THEN {"model"} ELSE {})
      \cup (IF s.Stream THEN {"stream"} ELSE {})
      \cup (IF s.MaxTokens # 0 THEN {"max_tokens"} ELSE {})
      \cup (IF s.System # "" THEN {"system"} ELSE {})

\* json.Marshal(reqBody): a nil slice is written as null.
Marshal(s) ==
    [k \in MarshalKeys(s) |->
        CASE k = "messages"   -> IF s.Messages = "nil" THEN "null" ELSE s.Messages
          [] k = "model"      -> s.Model
          [] k = "stream"     -> s.Stream
          [] k = "max_tokens" -> s.MaxTokens
          [] k = "system"     -> s.System]

\* Inbound bodies.  kind "object" is a JSON object, "garbage" is not JSON,
\* "mistyped" is JSON whose field has the wrong type (json.Unmarshal fails).
EmptyObj == [k \in {} |-> "null"]

InboundObjects ==
    { [messages |-> "[m1]"],
      [messages |-> "[m1]", model |-> "gpt-4", stream |-> TRUE,
       max_tokens |-> 100, system |-> "be-brief"],
      [messages |-> "[m1]", model |-> "gpt-4", stream |-> FALSE,
       max_tokens |-> 0, system |-> ""],
      [messages |-> "[m1]", stream |-> TRUE, temperature |-> 7],
      [messages |-> "[]", max_tokens |-> 2048],
      [model |-> "gpt-4", max_tokens |-> 5] }

InboundBodies ==
    { [kind |-> "object", obj |-> o] : o \in InboundObjects }
      \cup { [kind |-> "garbage", obj |-> EmptyObj],
             [kind |-> "mistyped", obj |-> EmptyObj] }

UnmarshalFails(body) == body.kind # "object"

\* ---------------------------------------------------------------- headers
\* http.Header is a map from canonical header name to a list of values; the
\* empty list stands for an absent key.  Header.Set("X-ID", v) stores under
\* the canonical key X-Id.
ProxyHeaderNames ==
    {"Host", "Content-Type", "X-Id", "X-Signature", "Accept", "Connection",
     "User-Agent", "X-License", "Accept-Encoding", "Accept-Language"}

HeaderNames ==
    ProxyHeaderNames \cup
    {"Content-Length", "Authorization", "X-Forwarded-For", "Cache-Control",
     "Transfer-Encoding", "X-Content-Type-Options", "X-Request-Id"}

NoHeaders == [h \in HeaderNames |-> <<>>]

HeaderSet(hdr, key, value) == [hdr EXCEPT ![key] = <<value>>]

HeaderAdd(hdr, key, value) == [hdr EXCEPT ![key] = Append(@, value)]

HeaderDel(hdr, key) == [hdr EXCEPT ![key] = <<>>]

\* Headers a caller may send.  The server moves an inbound Host header to
\* r.Host, so the inbound map never holds the key Host.
CallerHeaders ==
    { [h \in HeaderNames |->
          IF h = "Content-Type" THEN <<"application/json">> ELSE <<>>],
      [h \in HeaderNames |->
          IF h \in (ProxyHeaderNames \ {"Host"}) \cup {"Authorization"}
          THEN <<"caller-value">> ELSE <<>>] }

CallerHosts == {"proxy.local"}

\* ------------------------------------------------------------ environment
EnvNames == {"HOST", "X_ID", "X_SIGNATURE", "USER_AGENT", "X_LICENSE"}

\* requiredEnvVars, in the order the loop visits them.
requiredEnvVars == <<"HOST", "X_ID", "X_SIGNATURE", "USER_AGENT", "X_LICENSE">>

FullEnv ==
    [HOST |-> "api.upstream", X_ID |-> "id-1", X_SIGNATURE |-> "sig-1",
     USER_AGENT |-> "agent-1", X_LICENSE |-> "lic-1"]

Environments ==
    {FullEnv}
      \cup { [FullEnv EXCEPT ![e] = ""] : e \in EnvNames }
      \cup { [FullEnv EXCEPT !["HOST"] = "", !["X_ID"] = ""] }

\* Index of the first required variable that is empty, 0 when all are set.
FirstMissing(e) ==
    IF \E k \in 1..Len(requiredEnvVars) : e[requiredEnvVars[k]] = ""
    THEN CHOOSE k \in 1..Len(requiredEnvVars) :
            /\ e[requiredEnvVars[k]] = ""
            /\ \A j \in 1..(k - 1) : e[requiredEnvVars[j]] # ""
    ELSE 0

\* -------------------------------------------------------- response writer
\* An http.ResponseWriter: status 0 means WriteHeader has not been called.
NewResponseWriter ==
    [header |-> NoHeaders, status |-> 0, body |-> <<>>, flushed |-> FALSE]

StatusBadRequest == 400
StatusInternalServerError == 500
StatusBadGateway == 502

\* http.Error(w, msg, code).
HttpError(rw, msg, code) ==
    [rw EXCEPT
        !.header = HeaderSet(
                     HeaderSet(HeaderDel(@, "Content-Length"),
                               "Content-Type", "text/plain; charset=utf-8"),
                     "X-Content-Type-Options", "nosniff"),
        !.status = IF @ = 0 THEN code ELSE @,
        !.body = @ \o msg]

\* ------------------------------------------------------------------ state
VARIABLES
    revision,        \* which of the two programs of src/main.go runs
    env,             \* the process environment (os.Getenv)
    pc,              \* position of each handler invocation
    inbound,         \* the request as the caller sent it
    r,               \* the *http.Request the handler mutates
    body,            \* body, read by io.ReadAll
    reqBody,         \* var reqBody RequestBody
    originalStream,  \* originalStream (revision 1)
    branch,          \* response branch taken by revision 1
    proxies,         \* reverse-proxy instances: the parsed target URL of each
    outreq,          \* the proxy's outbound request, after the director
    upstream,        \* requests the upstream host received, per invocation
    reply,           \* what the upstream did with the request
    recorder,        \* respRecorder (revision 2)
    w                \* the caller's http.ResponseWriter

vars ==
    <<revision, env, pc, inbound, r, body, reqBody, originalStream, branch,
      proxies, outreq, upstream, reply, recorder, w>>

NoRequest ==
    [path |-> <<>>, host |-> "", header |-> NoHeaders,
     body |-> [kind |-> "garbage", obj |-> EmptyObj], readErr |-> FALSE]

NoURL == [scheme |-> "", host |-> "", path |-> <<>>]

NoOutreq == [url |-> NoURL, host |-> "", header |-> NoHeaders, body |-> EmptyObj]

NoReply == [kind |-> "none", status |-> 0, header |-> NoHeaders, body |-> <<>>]

NoBody == [kind |-> "unread", obj |-> EmptyObj]

InitWith(envs) ==
    /\ revision \in {1, 2}
    /\ env \in envs
    /\ pc = [i \in Clients |-> "idle"]
    /\ inbound = [i \in Clients |-> NoRequest]
    /\ r = [i \in Clients |-> NoOutreq]
    /\ body = [i \in Clients |-> NoBody]
    /\ reqBody = [i \in Clients |-> ZeroRequestBody]
    /\ originalStream = [i \in Clients |-> FALSE]
    /\ branch = [i \in Clients |-> "none"]
    /\ proxies = [i \in Clients |-> NoURL]
    /\ outreq = [i \in Clients |-> NoOutreq]
    /\ upstream = [i \in Clients |-> <<>>]
    /\ reply = [i \in Clients |-> NoReply]
    /\ recorder = [i \in Clients |-> NewResponseWriter]
    /\ w = [i \in Clients |-> NewResponseWriter]

Init == InitWith(Environments)

\* The server accepts a request and calls proxyHandler(w, r).
Accept(i, req) ==
    /\ pc[i] = "idle"
    /\ inbound' = [inbound EXCEPT ![i] = req]
    /\ r' = [r EXCEPT ![i] =
                [url |-> [scheme |-> "", host |-> "", path |-> req.path],
                 host |-> req.host, header |-> req.header, body |-> EmptyObj]]
    /\ pc' = [pc EXCEPT ![i] = IF revision = 1 THEN "checkEnv" ELSE "read"]
    /\ UNCHANGED <<revision, env, body, reqBody, originalStream, branch,
                   proxies, outreq, upstream, reply, recorder, w>>

Requests ==
    [path : Paths, host : CallerHosts, header : CallerHeaders,
     body : InboundBodies, readErr : BOOLEAN]

Receive(i) == \E req \in Requests : Accept(i, req)

\* The handler answers with http.Error and returns.
Fail(i, msg, code) ==
    /\ w' = [w EXCEPT ![i] = HttpError(@, msg, code)]
    /\ pc' = [pc EXCEPT ![i] = "done"]

\* CheckEnv without the check: the handler goes on to read the body.
CheckEnvSkipped(i) ==
    /\ pc[i] = "checkEnv"
    /\ pc' = [pc EXCEPT ![i] = "read"]
    /\ UNCHANGED <<revision, env, inbound, r, body, reqBody, originalStream,
                   branch, proxies, outreq, upstream, reply, recorder, w>>

\* Revision 1, lines 63-71: the environment check.
CheckEnv(i) ==
    /\ pc[i] = "checkEnv"
    /\ IF FirstMissing(env) # 0
       THEN Fail(i, <<"Missing required environment variable: ",
                      requiredEnvVars[FirstMissing(env)]>>,
                 StatusInternalServerError)
       ELSE /\ pc' = [pc EXCEPT ![i] = "read"]
            /\ UNCHANGED w
    /\ UNCHANGED <<revision, env, inbound, r, body, reqBody, originalStream,
                   branch, proxies, outreq, upstream, reply, recorder>>

\* io.ReadAll(r.Body).
ReadBody(i) ==
    /\ pc[i] = "read"
    /\ IF inbound[i].readErr
       THEN /\ Fail(i, <<"Failed to read request body">>,
                    StatusInternalServerError)
            /\ UNCHANGED body
       ELSE /\ body' = [body EXCEPT ![i] = inbound[i].body]
            /\ pc' = [pc EXCEPT ![i] = "parse"]
            /\ UNCHANGED w
    /\ UNCHANGED <<revision, env, inbound, r, reqBody, originalStream,
                   branch, proxies, outreq, upstream, reply, recorder>>

\* ParseJSON with the error dropped: a body that does not parse leaves the
\* zero RequestBody and the handler goes on.
ParseJSONIgnoringError(i) ==
    /\ pc[i] = "parse"
    /\ reqBody' = [reqBody EXCEPT ![i] =
                     IF UnmarshalFails(body[i]) THEN ZeroRequestBody
                     ELSE Unmarshal(body[i].obj)]
    /\ originalStream' =
         [originalStream EXCEPT ![i] =
            IF revision = 1 /\ ~UnmarshalFails(body[i])
            THEN Unmarshal(body[i].obj).Stream ELSE @]
    /\ pc' = [pc EXCEPT ![i] = "rewrite"]
    /\ UNCHANGED <<revision, env, inbound, r, body, branch, proxies, outreq,
                   upstream, reply, recorder, w>>

\* json.Unmarshal(body, &reqBody), then originalStream := reqBody.Stream.
ParseJSON(i) ==
    /\ pc[i] = "parse"
    /\ IF UnmarshalFails(body[i])
       THEN /\ Fail(i, <<"Invalid JSON in request body">>, StatusBadRequest)
            /\ UNCHANGED <<reqBody, originalStream>>
       ELSE /\ reqBody' = [reqBody EXCEPT ![i] = Unmarshal(body[i].obj)]
            /\ originalStream' =
                 [originalStream EXCEPT ![i] =
                    IF revision = 1 THEN Unmarshal(body[i].obj).Stream ELSE @]
            /\ pc' = [pc EXCEPT ![i] = "rewrite"]
            /\ UNCHANGED w
    /\ UNCHANGED <<revision, env, inbound, r, body, branch, proxies, outreq,
                   upstream, reply, recorder>>

\* RouteByPath with the token budget written on both branches.
RouteByPathBudgetOnBoth(path, rb) ==
    IF HasPrefix(path, AnthropicPrefix)
    THEN [ok |-> TRUE,
          rb |-> [rb EXCEPT !.Model = "sw-claude-3-5-sonnet", !.MaxTokens = 2048]]
    ELSE IF HasPrefix(path, ChatPrefix)
    THEN [ok |-> TRUE, rb |-> [rb EXCEPT !.Model = "sw-gpt-4o", !.MaxTokens = 2048]]
    ELSE [ok |-> FALSE, rb |-> rb]

\* Lines 94-104 / 244-253: the switch on the path prefix.
RouteByPath(path, rb) ==
    IF HasPrefix(path, AnthropicPrefix)
    THEN [ok |-> TRUE,
          rb |-> [rb EXCEPT !.Model = "sw-claude-3-5-sonnet", !.MaxTokens = 2048]]
    ELSE IF HasPrefix(path, ChatPrefix)
    THEN [ok |-> TRUE, rb |-> [rb EXCEPT !.Model = "sw-gpt-4o"]]
    ELSE [ok |-> FALSE, rb |-> rb]

\* ForceStream that leaves the caller's flag.
ForceStreamForgotten(rb) == rb

\* Revision 2, lines 255-257: the stream flag is forced on.
ForceStream(rb) == IF rb.Stream = FALSE THEN [rb EXCEPT !.Stream = TRUE] ELSE rb

\* The struct that is marshalled, given the routed struct.
BodyToMarshal(rev, rb) == IF rev = 2 THEN ForceStream(rb) ELSE rb

\* fmt.Sprintf("%d", len(modifiedBody)), kept symbolic.
ContentLengthOf(obj) == "len(modifiedBody)"

\* json.Marshal(reqBody) returns an error only for values it cannot encode
\* (channels, functions, NaN, cycles); a RequestBody filled by json.Unmarshal
\* holds none of them.
MarshalFails(s) == FALSE

\* The switch, the re-encoding and the replacement of r.Body
\* (lines 94-117 / 244-269).
RewriteBody(i) ==
    /\ pc[i] = "rewrite"
    /\ LET routed == RouteByPath(r[i].url.path, reqBody[i])
           out == BodyToMarshal(revision, routed.rb)
       IN IF ~routed.ok
          THEN /\ Fail(i, <<"Unknown endpoint">>, StatusBadRequest)
               /\ UNCHANGED <<reqBody, r>>
          ELSE IF MarshalFails(out)
          THEN /\ Fail(i, <<"Failed to modify request body">>,
                       StatusInternalServerError)
               /\ reqBody' = [reqBody EXCEPT ![i] = out]
               /\ UNCHANGED r
          ELSE /\ reqBody' = [reqBody EXCEPT ![i] = out]
               /\ r' = [r EXCEPT
                          ![i].body = Marshal(out),
                          ![i].header = HeaderSet(@, "Content-Length",
                                                  ContentLengthOf(Marshal(out)))]
               /\ pc' = [pc EXCEPT ![i] = "headers"]
               /\ UNCHANGED w
    /\ UNCHANGED <<revision, env, inbound, body, originalStream, branch,
                   proxies, outreq, upstream, reply, recorder>>

\* The header values of lines 120-131 / 271-280.
ProxyHeaderValue(e, h) ==
    CASE h = "Host"            -> e["HOST"]
      [] h = "Content-Type"    -> "application/json"
      [] h = "X-Id"            -> e["X_ID"]
      [] h = "X-Signature"     -> e["X_SIGNATURE"]
      [] h = "Accept"          -> "*/*"
      [] h = "Connection"      -> "keep-alive"
      [] h = "User-Agent"      -> e["USER_AGENT"]
      [] h = "X-License"       -> e["X_LICENSE"]
      [] h = "Accept-Encoding" -> "br;q=1.0, gzip;q=0.9, deflate;q=0.8"
      [] h = "Accept-Language" -> "en-US;q=1.0, en-IN;q=0.9"

\* r.Header.Set(key, value) for each of the ten headers.
ApplyProxyHeaders(hdr, e) ==
    [h \in HeaderNames |->
        IF h \in ProxyHeaderNames THEN <<ProxyHeaderValue(e, h)>> ELSE hdr[h]]

SetHeaders(i) ==
    /\ pc[i] = "headers"
    /\ r' = [r EXCEPT ![i].header = ApplyProxyHeaders(@, env)]
    /\ pc' = [pc EXCEPT ![i] = "createProxy"]
    /\ UNCHANGED <<revision, env, inbound, body, reqBody, originalStream,
                   branch, proxies, outreq, upstream, reply, recorder, w>>

\* targetURL := "https://" + os.Getenv("HOST"); targetURL += r.URL.Path.
TargetURL(e, path) == <<"https://", e["HOST"]>> \o path

\* url.Parse of a string of the form scheme://host/path.
UrlParse(target) ==
    [scheme |-> IF target[1] = "https://" THEN "https" ELSE "",
     host |-> target[2],
     path |-> SubSeq(target, 3, Len(target))]

\* One proxy instance shared by every invocation.
ProxyOfShared(i) == 1

\* The proxy instance a handler invocation uses: its own.
ProxyOf(i) == i

\* createProxy(targetURL): a new single-host reverse proxy for the target.
CreateProxy(i) ==
    /\ pc[i] = "createProxy"
    /\ proxies' = [proxies EXCEPT
                     ![ProxyOf(i)] = UrlParse(TargetURL(env, r[i].url.path))]
    /\ pc' = [pc EXCEPT ![i] = "serve"]
    /\ UNCHANGED <<revision, env, inbound, r, body, reqBody, originalStream,
                   branch, outreq, upstream, reply, recorder, w>>

\* Revision 1, lines 147-150: headers pre-set on the caller's response.
StreamHeaders(hdr) ==
    HeaderSet(HeaderSet(HeaderSet(HeaderSet(hdr,
        "Content-Type", "text/event-stream"),
        "Cache-Control", "no-cache"),
        "Connection", "keep-alive"),
        "Transfer-Encoding", "chunked")

\* Revision 1, lines 144-165: the branch on originalStream (the server's
\* ResponseWriter is always an http.Flusher).  Revision 2, line 288: a new
\* recorder.
BeginServe(i) ==
    /\ pc[i] = "serve"
    /\ IF revision = 1
       THEN /\ branch' = [branch EXCEPT ![i] =
                            IF originalStream[i] THEN "stream" ELSE "plain"]
            /\ w' = [w EXCEPT ![i].header =
                            IF originalStream[i] THEN StreamHeaders(@) ELSE @]
            /\ UNCHANGED recorder
       ELSE /\ recorder' = [recorder EXCEPT ![i] = NewResponseWriter]
            /\ UNCHANGED <<branch, w>>
    /\ pc' = [pc EXCEPT ![i] = "roundtrip"]
    /\ UNCHANGED <<revision, env, inbound, r, body, reqBody, originalStream,
                   proxies, outreq, upstream, reply>>

\* ----------------------------------------------- httputil.ReverseProxy
\* singleJoiningSlash(a, b) of net/http/httputil.
singleJoiningSlash(a, b) ==
    IF HasSuffixSlash(a) /\ HasPrefixSlash(b) THEN a \o Tail(b)
    ELSE IF ~HasSuffixSlash(a) /\ ~HasPrefixSlash(b) THEN a \o <<"/">> \o b
    ELSE a \o b

\* The director of NewSingleHostReverseProxy(target): scheme and host come
\* from the target, the path is the target's path joined with the request's.
\* req.Host is left as it is.
Director(target, req) ==
    [req EXCEPT !.url = [scheme |-> target.scheme,
                         host |-> target.host,
                         path |-> singleJoiningSlash(target.path, req.url.path)]]

HopByHopHeaders == {"Connection", "Transfer-Encoding"}

\* removeHopByHopHeaders.
RemoveHopByHop(hdr) ==
    [h \in HeaderNames |-> IF h \in HopByHopHeaders THEN <<>> ELSE hdr[h]]

\* What the upstream reads from the wire: the Host line is req.Host, or the
\* URL's host when req.Host is empty; a Host key of the header map is not
\* written.
WireRequest(req) ==
    [req EXCEPT
        !.host = IF req.host # "" THEN req.host ELSE req.url.host,
        !.header = [@ EXCEPT !["Host"] =
                       <<IF req.host # "" THEN req.host ELSE req.url.host>>]]

\* The outbound request the proxy builds from the handler's request.
Outbound(target, req) ==
    LET directed == Director(target, req)
    IN [directed EXCEPT
          !.header = HeaderAdd(RemoveHopByHop(@), "X-Forwarded-For", "caller-ip")]

\* What the upstream may do: fail at the transport, or answer.
UpstreamReplies ==
    { [kind |-> "error", status |-> 0, header |-> NoHeaders, body |-> <<>>],
      [kind |-> "response", status |-> 200,
       header |-> [h \in HeaderNames |->
                     CASE h = "Content-Type" -> <<"application/json">>
                       [] h = "X-Request-Id" -> <<"rid-1">>
                       [] OTHER -> <<>>],
       body |-> <<"completion">>],
      [kind |-> "response", status |-> 200,
       header |-> [h \in HeaderNames |->
                     CASE h = "Content-Type" -> <<"text/event-stream">>
                       [] h = "Cache-Control" -> <<"no-store">>
                       [] OTHER -> <<>>],
       body |-> <<"data: a", "data: b">>],
      [kind |-> "response", status |-> 429,
       header |-> [h \in HeaderNames |->
                     IF h = "Content-Type" THEN <<"application/json">> ELSE <<>>],
       body |-> <<"rate-limited">>] }

\* proxy.ServeHTTP, first half: build the outbound request and send it.
RoundTrip(i) ==
    /\ pc[i] = "roundtrip"
    /\ \E rep \in UpstreamReplies :
         /\ outreq' = [outreq EXCEPT ![i] = Outbound(proxies[ProxyOf(i)], r[i])]
         /\ upstream' = [upstream EXCEPT ![i] =
                           Append(@, WireRequest(Outbound(proxies[ProxyOf(i)], r[i])))]
         /\ reply' = [reply EXCEPT ![i] = rep]
    /\ pc' = [pc EXCEPT ![i] = "respond"]
    /\ UNCHANGED <<revision, env, inbound, r, body, reqBody, originalStream,
                   branch, proxies, recorder, w>>

\* copyHeader(dst, src): every value is added, none replaced.
CopyHeader(dst, src) == [h \in HeaderNames |-> dst[h] \o src[h]]

\* The proxy writes the upstream's response to its ResponseWriter.
WriteResponse(rw, rep) ==
    [rw EXCEPT !.header = CopyHeader(@, RemoveHopByHop(rep.header)),
               !.status = IF @ = 0 THEN rep.status ELSE @,
               !.body = @ \o rep.body]

\* An error handler that only logs.
ErrorHandlerSilent(rev, rw) == rw

\* proxy.ErrorHandler: revision 1 installs http.Error with 502 (lines 44-47),
\* revision 2 keeps the default, which writes the 502 status alone.
ErrorHandler(rev, rw) ==
    IF rev = 1
    THEN HttpError(rw, <<"Proxy error: ", "transport error">>, StatusBadGateway)
    ELSE [rw EXCEPT !.status = IF @ = 0 THEN StatusBadGateway ELSE @]

ProxyResult(rev, rw, rep) ==
    IF rep.kind = "error" THEN ErrorHandler(rev, rw) ELSE WriteResponse(rw, rep)

\* proxy.ServeHTTP, second half, and in revision 1 the return of the
\* handler (with flusher.Flush() on the streaming branch).
ProxyRespond(i) ==
    /\ pc[i] = "respond"
    /\ IF revision = 1
       THEN /\ w' = [w EXCEPT ![i] =
                       [ProxyResult(1, @, reply[i]) EXCEPT
                           !.flushed = (branch[i] = "stream")]]
            /\ pc' = [pc EXCEPT ![i] = "done"]
            /\ UNCHANGED recorder
       ELSE /\ recorder' = [recorder EXCEPT ![i] = ProxyResult(2, @, reply[i])]
            /\ pc' = [pc EXCEPT ![i] = "replay"]
            /\ UNCHANGED w
    /\ UNCHANGED <<revision, env, inbound, r, body, reqBody, originalStream,
                   branch, proxies, outreq, upstream, reply>>

\* respRecorder.Result(): a recorder never written to reports 200.
RecorderResult(rec) == [rec EXCEPT !.status = IF @ = 0 THEN 200 ELSE @]

\* Revision 2, lines 291-310: the recorded response is copied to the caller.
ReplayTo(rw, resp) ==
    [rw EXCEPT !.header = CopyHeader(@, resp.header),
               !.status = IF @ = 0 THEN resp.status ELSE @,
               !.body = @ \o resp.body]

Replay(i) ==
    /\ pc[i] = "replay"
    /\ w' = [w EXCEPT ![i] = ReplayTo(@, RecorderResult(recorder[i]))]
    /\ pc' = [pc EXCEPT ![i] = "done"]
    /\ UNCHANGED <<revision, env, inbound, r, body, reqBody, originalStream,
                   branch, proxies, outreq, upstream, reply, recorder>>

\* The handler has returned; its request, locals and proxy are garbage.
Finish(i) ==
    /\ pc[i] = "done"
    /\ pc' = [pc EXCEPT ![i] = "idle"]
    /\ inbound' = [inbound EXCEPT ![i] = NoRequest]
    /\ r' = [r EXCEPT ![i] = NoOutreq]
    /\ body' = [body EXCEPT ![i] = NoBody]
    /\ reqBody' = [reqBody EXCEPT ![i] = ZeroRequestBody]
    /\ originalStream' = [originalStream EXCEPT ![i] = FALSE]
    /\ branch' = [branch EXCEPT ![i] = "none"]
    /\ proxies' = [proxies EXCEPT ![i] = NoURL]
    /\ outreq' = [outreq EXCEPT ![i] = NoOutreq]
    /\ upstream' = [upstream EXCEPT ![i] = <<>>]
    /\ reply' = [reply EXCEPT ![i] = NoReply]
    /\ recorder' = [recorder EXCEPT ![i] = NewResponseWriter]
    /\ w' = [w EXCEPT ![i] = NewResponseWriter]
    /\ UNCHANGED <<revision, env>>

Handle(i) ==
    \/ CheckEnv(i)
    \/ ReadBody(i)
    \/ ParseJSON(i)
    \/ RewriteBody(i)
    \/ SetHeaders(i)
    \/ CreateProxy(i)
    \/ BeginServe(i)
    \/ RoundTrip(i)
    \/ ProxyRespond(i)
    \/ Replay(i)
    \/ Finish(i)

\* One request at a time, every input.
Next == Receive(1) \/ Handle(1)

Spec == Init /\ [][Next]_vars

\* Requests of the concurrent specification: one per routing outcome, with
\* different paths, bodies and headers so that a mix-up between two
\* invocations shows.
ConcRequests ==
    { [path |-> AnthropicPrefix, host |-> "proxy.local",
       header |-> [h \in HeaderNames |->
                     IF h = "Content-Type" THEN <<"application/json">> ELSE <<>>],
       body |-> [kind |-> "object",
                 obj |-> [messages |-> "[m1]", model |-> "gpt-4",
                          stream |-> TRUE, max_tokens |-> 100,
                          system |-> "be-brief"]],
       readErr |-> FALSE],
      [path |-> ChatPrefix, host |-> "proxy.local",
       header |-> [h \in HeaderNames |->
                     IF h \in (ProxyHeaderNames \ {"Host"}) \cup {"Authorization"}
                     THEN <<"caller-value">> ELSE <<>>],
       body |-> [kind |-> "object", obj |-> [messages |-> "[]", max_tokens |-> 2048]],
       readErr |-> FALSE],
      [path |-> <<"/", "v1", "/", "models">>, host |-> "proxy.local",
       header |-> [h \in HeaderNames |->
                     IF h = "Content-Type" THEN <<"application/json">> ELSE <<>>],
       body |-> [kind |-> "object", obj |-> [messages |-> "[m1]"]],
       readErr |-> FALSE] }

ReceiveConc(i) == \E req \in ConcRequests : Accept(i, req)

InitConc == InitWith({FullEnv})

\* The server runs one goroutine per connection: any interleaving of the
\* handlers' steps.
NextConc == \E i \in Clients : ReceiveConc(i) \/ Handle(i)

SpecConc == InitConc /\ [][NextConc]_vars

\* One request at a time, every input, all five variables set.
SpecConfigured == InitWith({FullEnv}) /\ [][Next]_vars

\* ---------------------------------------------------------------- claims
Done(i) == pc[i] = "done"

Forwarded(i) == Len(upstream[i]) > 0

IsAnthropic(path) == HasPrefix(path, AnthropicPrefix)

IsChat(path) == ~IsAnthropic(path) /\ HasPrefix(path, ChatPrefix)

\* A field of a JSON object as the RequestBody schema reads it.
FieldValue(obj, f, zero) == IF f \in DOMAIN obj THEN obj[f] ELSE zero

\* Which checks the handler reaches and fails, from the request alone.
EnvPasses == revision = 2 \/ FirstMissing(env) = 0

HitsReadFailure(i) == EnvPasses /\ inbound[i].readErr

HitsParseFailure(i) ==
    EnvPasses /\ ~inbound[i].readErr /\ UnmarshalFails(inbound[i].body)

HitsUnknownPath(i) ==
    /\ EnvPasses /\ ~inbound[i].readErr /\ ~UnmarshalFails(inbound[i].body)
    /\ ~IsAnthropic(inbound[i].path) /\ ~IsChat(inbound[i].path)

Answered(i, code, msg) == w[i].status = code /\ w[i].body = msg

\* C1: every outbound request has the path of the inbound request.
C1_SamePath ==
    \A i \in Clients : \A k \in 1..Len(upstream[i]) :
        upstream[i][k].url.path = inbound[i].path

\* Fields the routing rule writes for a path.
RoutedFields(path) ==
    IF IsAnthropic(path) THEN {"model", "max_tokens"} ELSE {"model"}

\* C2: in every outbound body, each field of the inbound body that the
\* routing rule does not write is present with the same value, and each
\* field of the outbound body was in the inbound body or is written by the
\* routing rule.
C2_FieldsPreserved ==
    \A i \in Clients : \A k \in 1..Len(upstream[i]) :
        LET in == inbound[i].body.obj
            out == upstream[i][k].body
            routed == RoutedFields(inbound[i].path)
        IN /\ \A f \in DOMAIN in \ routed : f \in DOMAIN out /\ out[f] = in[f]
           /\ \A f \in DOMAIN out : f \in DOMAIN in \/ f \in routed

\* The two forwarding branches of the switch, as C3 states them.
C3_Rewrite(i) ==
    \A k \in 1..Len(upstream[i]) :
        LET in == inbound[i].body.obj
            out == upstream[i][k].body
        IN /\ IsAnthropic(inbound[i].path) =>
                /\ FieldValue(out, "model", "") = "sw-claude-3-5-sonnet"
                /\ FieldValue(out, "max_tokens", 0) = 2048
           /\ IsChat(inbound[i].path) =>
                /\ FieldValue(out, "model", "") = "sw-gpt-4o"
                /\ FieldValue(out, "max_tokens", 0) = FieldValue(in, "max_tokens", 0)

\* C3 as stated: the two forwarding branches, and every request on a path
\* with neither prefix is answered 400 "Unknown endpoint" and not forwarded.
C3_TwoWaySwitch ==
    \A i \in Clients :
        /\ C3_Rewrite(i)
        /\ (pc[i] # "idle" /\ ~IsAnthropic(inbound[i].path) /\ ~IsChat(inbound[i].path))
              => /\ ~Forwarded(i)
                 /\ Done(i) => Answered(i, StatusBadRequest, <<"Unknown endpoint">>)

\* C3 amended: the two forwarding branches; a request on a path with neither
\* prefix is never forwarded, and it is answered 400 "Unknown endpoint" when
\* the checks before the switch passed (environment in revision 1, body
\* read, JSON parsed).
C3_TwoWaySwitchAfterChecks ==
    \A i \in Clients :
        /\ C3_Rewrite(i)
        /\ (pc[i] # "idle" /\ ~IsAnthropic(inbound[i].path) /\ ~IsChat(inbound[i].path))
              => ~Forwarded(i)
        /\ (Done(i) /\ HitsUnknownPath(i))
              => Answered(i, StatusBadRequest, <<"Unknown endpoint">>)

C3_Witness ==
    /\ Done(1) /\ HitsUnknownPath(1)
    /\ Answered(1, StatusBadRequest, <<"Unknown endpoint">>)
    /\ ~Forwarded(1)

\* C4: on every outbound request each of the ten headers holds exactly the
\* proxy's value, the Host the upstream reads included.
C4_ProxyHeadersOnly ==
    \A i \in Clients : \A k \in 1..Len(upstream[i]) :
        \A h \in ProxyHeaderNames :
            upstream[i][k].header[h] = <<ProxyHeaderValue(env, h)>>

\* C5: a request is sent upstream at most once; a request that fails a local
\* check is never sent, and is answered 500 (body read, re-encode) or 400
\* (malformed JSON, unknown path).
C5_AtMostOneAndNoneOnLocalFailure ==
    \A i \in Clients :
        /\ Len(upstream[i]) <= 1
        /\ (pc[i] # "idle" /\ (HitsReadFailure(i) \/ HitsParseFailure(i)
                                 \/ HitsUnknownPath(i)))
              => ~Forwarded(i)
        /\ Done(i) =>
              /\ HitsReadFailure(i) => w[i].status = StatusInternalServerError
              /\ HitsParseFailure(i) => w[i].status = StatusBadRequest
              /\ HitsUnknownPath(i) => w[i].status = StatusBadRequest
              /\ (~Forwarded(i) /\ w[i].body = <<"Failed to modify request body">>)
                    => w[i].status = StatusInternalServerError

C5_Witness ==
    /\ Done(1) /\ HitsParseFailure(1) /\ IsChat(inbound[1].path)
    /\ w[1].status = StatusBadRequest /\ ~Forwarded(1)

\* C6: in revision 1 a request whose upstream call fails is answered 502,
\* on the streaming and on the non-streaming branch, after exactly one
\* attempt.
C6_UpstreamFailureIs502 ==
    \A i \in Clients :
        (revision = 1 /\ Done(i) /\ reply[i].kind = "error")
            => /\ w[i].status = StatusBadGateway
               /\ Len(upstream[i]) = 1

C6_Witness ==
    /\ revision = 1 /\ Done(1) /\ reply[1].kind = "error"
    /\ branch[1] = "stream" /\ w[1].status = StatusBadGateway

\* What one invocation does when it runs alone: the handler's steps composed
\* on the request, the environment and the upstream's reply.
AloneRequest(rev, e, req) ==
    LET out == BodyToMarshal(rev, RouteByPath(req.path, Unmarshal(req.body.obj)).rb)
        mine == [url |-> [scheme |-> "", host |-> "", path |-> req.path],
                 host |-> req.host,
                 header |-> ApplyProxyHeaders(
                              HeaderSet(req.header, "Content-Length",
                                        ContentLengthOf(Marshal(out))), e),
                 body |-> Marshal(out)]
    IN WireRequest(Outbound(UrlParse(TargetURL(e, req.path)), mine))

AloneFailure(rev, e, req) ==
    IF rev = 1 /\ FirstMissing(e) # 0
    THEN HttpError(NewResponseWriter,
                   <<"Missing required environment variable: ",
                     requiredEnvVars[FirstMissing(e)]>>, StatusInternalServerError)
    ELSE IF req.readErr
    THEN HttpError(NewResponseWriter, <<"Failed to read request body">>,
                   StatusInternalServerError)
    ELSE IF UnmarshalFails(req.body)
    THEN HttpError(NewResponseWriter, <<"Invalid JSON in request body">>,
                   StatusBadRequest)
    ELSE IF ~RouteByPath(req.path, Unmarshal(req.body.obj)).ok
    THEN HttpError(NewResponseWriter, <<"Unknown endpoint">>, StatusBadRequest)
    ELSE NewResponseWriter

AloneResponse(rev, e, req, rep) ==
    IF AloneFailure(rev, e, req).status # 0 THEN AloneFailure(rev, e, req)
    ELSE IF rev = 1
    THEN LET streaming == Unmarshal(req.body.obj).Stream
             start == IF streaming
                      THEN [NewResponseWriter EXCEPT !.header = StreamHeaders(@)]
                      ELSE NewResponseWriter
         IN [ProxyResult(1, start, rep) EXCEPT !.flushed = streaming]
    ELSE ReplayTo(NewResponseWriter,
                  RecorderResult(ProxyResult(2, NewResponseWriter, rep)))

C8_ResponseVerbatim ==
    \A i \in Clients :
        (Done(i) /\ reply[i].kind = "response")
            => /\ w[i].status = reply[i].status
               /\ w[i].body = reply[i].body
               /\ w[i].header = reply[i].header

\* C9: revision 2 forwards stream = true whatever the caller sent; revision 1
\* forwards the caller's flag and takes the streaming branch (event-stream
\* headers pre-set, flush after the proxy call) exactly when the caller's
\* flag was true.
C9_StreamFlagByRevision ==
    \A i \in Clients :
        LET callerStream == FieldValue(inbound[i].body.obj, "stream", FALSE)
        IN /\ \A k \in 1..Len(upstream[i]) :
                IF revision = 2
                THEN /\ "stream" \in DOMAIN upstream[i][k].body
                     /\ upstream[i][k].body["stream"] = TRUE
                ELSE FieldValue(upstream[i][k].body, "stream", FALSE) = callerStream
           /\ (revision = 1 /\ branch[i] # "none")
                => /\ (branch[i] = "stream") <=> callerStream
                   /\ pc[i] \in {"roundtrip", "respond"}
                         => (w[i].header["Content-Type"] = <<"text/event-stream">>
                               <=> callerStream)
           /\ (revision = 1 /\ Done(i) /\ Forwarded(i))
                => (w[i].flushed <=> callerStream)
           /\ revision = 2 => (branch[i] = "none" /\ ~w[i].flushed)

C9_Witness ==
    /\ revision = 2 /\ Forwarded(1)
    /\ "stream" \in DOMAIN inbound[1].body.obj
    /\ inbound[1].body.obj["stream"] = FALSE
    /\ upstream[1][1].body["stream"] = TRUE

\* C10: revision 1 answers with the first check that fails, in the order
\* environment, body read, JSON parse, path, re-encode; with a required
\* variable unset nothing is read and nothing is forwarded.
C10_FirstFailureWins ==
    \A i \in Clients :
        revision = 1 =>
            /\ FirstMissing(env) # 0 => (~Forwarded(i) /\ body[i] = NoBody)
            /\ Done(i) =>
                 IF FirstMissing(env) # 0
                 THEN Answered(i, StatusInternalServerError,
                               <<"Missing required environment variable: ",
                                 requiredEnvVars[FirstMissing(env)]>>)
                 ELSE IF inbound[i].readErr
                 THEN Answered(i, StatusInternalServerError,
                               <<"Failed to read request body">>)
                 ELSE IF UnmarshalFails(inbound[i].body)
                 THEN Answered(i, StatusBadRequest, <<"Invalid JSON in request body">>)
                 ELSE IF ~IsAnthropic(inbound[i].path) /\ ~IsChat(inbound[i].path)
                 THEN Answered(i, StatusBadRequest, <<"Unknown endpoint">>)
                 ELSE IF MarshalFails(reqBody[i])
                 THEN Answered(i, StatusInternalServerError,
                               <<"Failed to modify request body">>)
                 ELSE Forwarded(i)

C10_Witness ==
    /\ revision = 1 /\ Done(1) /\ FirstMissing(env) = 0
    /\ UnmarshalFails(inbound[1].body)
    /\ ~IsAnthropic(inbound[1].path) /\ ~IsChat(inbound[1].path)
    /\ Answered(1, StatusBadRequest, <<"Invalid JSON in request body">>)
====
